---- MODULE Spec2Model ----
(***************************************************************************)
(* Model of pomodoro_app.py (class PomodoroApp): the timer fields, the     *)
(* widgets the handlers write, the Tk main loop (one handler at a time)    *)
(* and the daemon threads running run_timer, which share the timer fields  *)
(* with the main loop without any lock.                                    *)
(*                                                                         *)
(* Main-loop handlers (start_timer, pause_timer, reset_timer,              *)
(* on_technique_changed, update_display, handle_timer_complete) are one    *)
(* action each.  run_timer is one action per statement that reads or       *)
(* writes a shared field, so that the main loop and the other run_timer    *)
(* threads interleave with it between any two statements.  The statement   *)
(* `self.remaining_time -= 1` is taken as one step; an interpreter that    *)
(* switches threads inside it adds lost updates to the behaviours below.   *)
(* time.sleep only delays a thread: any thread may take its next step at   *)
(* any time.                                                               *)
(*                                                                         *)
(* Buttons run their command only while enabled, as in the GUI, and the    *)
(* main window takes no input while a dialog holds the grab.               *)
(*                                                                         *)
(* techniques.json is config_file: absent, a complete JSON array, or text  *)
(* cut short.  save_techniques is part of the handler that calls it; its   *)
(* outcome (written, or a write failed midway) is an input of that         *)
(* handler; an open() that fails leaves the file as it was and is left     *)
(* out.                                                                    *)
(*                                                                         *)
(* show_notification returns normally in every specification but           *)
(* SpecNotify, where the notifier may raise.                               *)
(*                                                                         *)
(* Left out, written by the handlers but read by nothing modelled: the     *)
(* progress bar value, the phase label (phase_var) and the text of the     *)
(* notification and of the message boxes.                                  *)
(*                                                                         *)
(* The source counts 60 seconds per minute; the model counts               *)
(* TicksPerMinute, a bound, so that whole phases are explored.             *)
(***************************************************************************)
EXTENDS Integers, Sequences, FiniteSets, TLC

\* ----------------------------------------------------------------- bounds
TicksPerMinute == 2     \* ticks of the countdown per configured minute
MaxThreads == 2         \* run_timer threads alive at the same time
MaxQueue == 1           \* root.after(0, ...) callbacks waiting in the main loop
MaxCycles == 2          \* completed_cycles is not counted beyond this
MaxTechniques == 3      \* techniques are not added beyond this length of the list
MaxMinutes == 1         \* numbers typed into a spinbox range over 0..MaxMinutes

\* ------------------------------------------------------- program constants
DefaultCycleDenominator == 4    \* "Cycle: 0/4", the literal of create_widgets
DefaultLongBreakTime == 15      \* TimerTechnique.long_break_time
DefaultCyclesBeforeLongBreak == 4   \* TimerTechnique.cycles_before_long_break
LoadDefaultLongBreakTime == 15  \* t_data.get("long_break_time", 15)
LoadDefaultCycles == 4          \* t_data.get("cycles_before_long_break", 4)

VARIABLES
    timer_running,      \* self.timer_running
    timer_paused,       \* self.timer_paused
    remaining_time,     \* self.remaining_time
    current_phase,      \* self.current_phase
    completed_cycles,   \* self.completed_cycles
    techniques,         \* self.techniques
    current_technique,  \* self.current_technique, as its index in techniques
    technique_var,      \* combobox selection (a name)
    description_var,
    work_time_var,
    break_time_var,
    time_display,       \* <<minutes, seconds>> of the "MM:SS" label
    cycle_var,          \* <<n, d>> of "Cycle: n/d"
    start_button,
    pause_button,       \* [state, text]
    reset_button,
    dropdown_values,    \* technique_dropdown['values']
    platform,           \* platform.system()
    config_file,        \* the content of techniques.json
    window,             \* the dialog holding the grab: "none", "edit" or "add"
    technique_frames,   \* the frames of the edit dialog, <<>> while it is closed
    threads,            \* place in run_timer -> number of threads there
    queue,              \* callbacks posted with root.after(0, ...), oldest first
    lastOp,             \* history: the step taken last
    handled,            \* history: handle_timer_complete runs since the countdown last
                        \* hit 0 or a session was last started
    worksDone           \* history: Work phases completed since the last reset

timerVars == <<timer_running, timer_paused, remaining_time, current_phase, completed_cycles>>
techVars == <<techniques, current_technique, technique_var, description_var,
              work_time_var, break_time_var>>
widgetVars == <<time_display, cycle_var,
                start_button, pause_button, reset_button>>
storeVars == <<dropdown_values, platform, config_file, window, technique_frames>>
histVars == <<handled, worksDone>>
vars == <<timerVars, techVars, widgetVars, storeVars, threads, queue, lastOp, histVars>>

\* ------------------------------------------------------------------ values
TimerTechnique(n, w, b, l, c, d) ==
    [name |-> n, work_time |-> w, break_time |-> b, long_break_time |-> l,
     cycles_before_long_break |-> c, description |-> d]

\* The list load_techniques returns for a techniques.json holding two records.
LoadedTechniques ==
    << TimerTechnique("A", 2, 1, 3, 2, "a"),
       TimerTechnique("B", 1, 2, 1, 3, "b") >>

\* The list load_techniques returns when there is no file, or none it can read.
DefaultTechniques ==
    << TimerTechnique("Classic Pomodoro", 25, 5, DefaultLongBreakTime,
                      DefaultCyclesBeforeLongBreak, "classic"),
       TimerTechnique("Long Focus", 50, 10, DefaultLongBreakTime,
                      DefaultCyclesBeforeLongBreak, "long"),
       TimerTechnique("Short Burst", 15, 3, DefaultLongBreakTime,
                      DefaultCyclesBeforeLongBreak, "short") >>

Platforms == {"Darwin", "Linux"}

\* ---------------------------------------------------------- techniques.json
\* The content of the file: none, a complete JSON array of objects (data), or
\* text cut short, the beginning of an array or nothing at all; no handler
\* reads what such a text holds.
NoFile == [kind |-> "absent", data |-> <<>>]
JsonFile(data) == [kind |-> "json", data |-> data]
PartialFile == [kind |-> "partial", data |-> <<>>]

\* the keys load_techniques reads with t_data[...]
RequiredKeys == {"name", "work_time", "break_time"}

\* dict.get(key, default)
Get(t, key, default) == IF key \in DOMAIN t THEN t[key] ELSE default

\* lines 61-69: one object of the array
LoadRecord(t) ==
    TimerTechnique(t.name, t.work_time, t.break_time,
                   Get(t, "long_break_time", LoadDefaultLongBreakTime),
                   Get(t, "cycles_before_long_break", LoadDefaultCycles),
                   Get(t, "description", ""))

\* json.load returns and every object has the required keys: no exception
Loadable(f) ==
    /\ f.kind = "json"
    /\ \A i \in 1..Len(f.data) : RequiredKeys \subseteq DOMAIN f.data[i]

\* How load_techniques ends: without a file (55) it returns the defaults; when
\* the try succeeds it returns the list built (70); when anything in the try
\* raises, `except Exception` (71-72) shows a message box and the function goes
\* on to return the defaults (76-94).  It never raises to its caller.
LoadOutcome(f) ==
    CASE f.kind = "absent" -> "defaults"
      [] Loadable(f) -> "loaded"
      [] OTHER -> "error_shown_defaults"

\* load_techniques (50-94): the list returned
LoadTechniques(f) ==
    IF LoadOutcome(f) = "loaded"
    THEN [i \in 1..Len(f.data) |-> LoadRecord(f.data[i])]
    ELSE DefaultTechniques

\* save_techniques (96-118): the file after saving list over old.  open(.., 'w')
\* empties the file and json.dump writes it piece by piece; a write that
\* fails leaves the text cut short.
SaveOutcomes == {"written", "write_failed"}

\* a save that leaves long_break_time out of the objects
SaveRecord_NoLongBreak(t) ==
    [name |-> t.name, work_time |-> t.work_time, break_time |-> t.break_time,
     cycles_before_long_break |-> t.cycles_before_long_break,
     description |-> t.description]

\* lines 104-111: the object written for one technique
SaveRecord(t) ==
    [name |-> t.name, work_time |-> t.work_time, break_time |-> t.break_time,
     long_break_time |-> t.long_break_time,
     cycles_before_long_break |-> t.cycles_before_long_break,
     description |-> t.description]

SaveTechniques(list, old, outcome) ==
    IF outcome = "written"
    THEN JsonFile([i \in 1..Len(list) |-> SaveRecord(list[i])])
    ELSE PartialFile

\* The contents of techniques.json the application is started with.
FileContents ==
    { NoFile,
      JsonFile(<<>>),
      JsonFile(LoadedTechniques),
      JsonFile(<< [name |-> "C", work_time |-> 1, break_time |-> 1] >>),
      JsonFile(<< LoadedTechniques[1], [name |-> "D", work_time |-> 1] >>),
      PartialFile }

\* The places of run_timer a thread can be at between two steps: "cond" before the
\* loop condition (675), "chk" before the paused test (676), "dec" before the
\* decrement (678), "exit" after the loop (689).  run_timer has no locals, so the
\* threads at the same place are indistinguishable: threads[pc] counts them.
Pcs == {"cond", "chk", "dec", "exit"}
NoThreads == [pc \in Pcs |-> 0]
Alive(ths) == ths["cond"] + ths["chk"] + ths["dec"] + ths["exit"]
AliveLoops == threads["cond"] + threads["chk"] + threads["dec"]
CanSpawn == Alive(threads) < MaxThreads
Move(ths, from, to) == [ths EXCEPT ![from] = @ - 1, ![to] = @ + 1]

cur == techniques[current_technique]

\* a Thread(...).start() that starts nothing
SpawnThread_None(ths) == ths

\* threading.Thread(target=self.run_timer).start()
SpawnThread(ths) == [ths EXCEPT !["cond"] = @ + 1]

\* divmod(self.remaining_time, 60), Python floor division
DivMod(n, d) == <<n \div d, n % d>>

\* the seconds of a phase: <minutes> * 60
PhaseSeconds(minutes) == minutes * TicksPerMinute

\* update_display, line 596: the branch that shows the countdown
DisplayRunning(running, paused) == running /\ ~paused

\* an update_display that always shows the remaining time
DisplayText_Remaining(running, paused, remaining, tech) == DivMod(remaining, TicksPerMinute)

\* update_display, lines 596-614: <<minutes, seconds>> of the time label
DisplayText(running, paused, remaining, tech) ==
    IF DisplayRunning(running, paused)
    THEN DivMod(remaining, TicksPerMinute)
    ELSE <<tech.work_time, 0>>

\* ------------------------------------------------------------------- Init
\* __init__ (22-48) and create_widgets, started with techniques.json = f.  With
\* an empty list `self.techniques[0]` (42) raises IndexError: current_technique
\* is never assigned (0 here) and no widget is created.
InitFrom(f) ==
    LET loaded == LoadTechniques(f)
        first == IF loaded = <<>>
                 THEN TimerTechnique("", 0, 0, 0, 0, "")
                 ELSE loaded[1]
    IN
    /\ config_file = f
    /\ timer_running = FALSE
    /\ timer_paused = FALSE
    /\ remaining_time = 0
    /\ current_phase = "work"
    /\ completed_cycles = 0
    /\ techniques = loaded
    /\ current_technique = IF loaded = <<>> THEN 0 ELSE 1
    /\ technique_var = first.name
    /\ description_var = first.description
    /\ work_time_var = first.work_time
    /\ break_time_var = first.break_time
    /\ time_display = <<first.work_time, 0>>
    /\ dropdown_values = [i \in 1..Len(loaded) |-> loaded[i].name]
    /\ cycle_var = <<0, DefaultCycleDenominator>>
    /\ start_button = IF loaded = <<>> THEN "disabled" ELSE "normal"
    /\ pause_button = [state |-> "disabled", text |-> "Pause"]
    /\ reset_button = "disabled"
    /\ window = "none"
    /\ technique_frames = <<>>
    /\ threads = NoThreads
    /\ queue = <<>>
    /\ lastOp = "init"
    /\ handled = 0
    /\ worksDone = 0

\* started with the techniques.json of two techniques
Init ==
    /\ platform \in Platforms
    /\ InitFrom(SaveTechniques(LoadedTechniques, NoFile, "written"))

\* ------------------------------------------------ start_timer (617-643)
\* a start_timer that never takes the resume branch
IsResume_Never(running, paused) == FALSE

\* line 619: the branch that resumes from pause
IsResume(running, paused) == running /\ paused

\* a start_timer that loads the break time
StartRemaining_Break(tech) == PhaseSeconds(tech.break_time)

\* line 632: the time a freshly started session counts down from
StartRemaining(tech) == PhaseSeconds(tech.work_time)

StartTimer ==
    IF IsResume(timer_running, timer_paused)
    THEN /\ timer_paused' = FALSE
         /\ start_button' = "disabled"
         /\ pause_button' = [state |-> "normal", text |-> "Pause"]
         /\ lastOp' = "resume"
         /\ UNCHANGED <<timer_running, remaining_time, current_phase, completed_cycles,
                        techVars, time_display, cycle_var,
                        reset_button, threads, queue, histVars,
                   storeVars>>
    ELSE /\ CanSpawn
         /\ timer_running' = TRUE
         /\ timer_paused' = FALSE
         /\ current_phase' = "work"
         /\ remaining_time' = StartRemaining(cur)
         /\ threads' = SpawnThread(threads)
         /\ start_button' = "disabled"
         /\ pause_button' = [pause_button EXCEPT !.state = "normal"]
         /\ reset_button' = "normal"
         /\ lastOp' = "start"
         /\ handled' = 0
         /\ UNCHANGED <<completed_cycles, techVars, time_display, cycle_var,
                        queue, worksDone,
                   storeVars>>

\* ------------------------------------------------ pause_timer (645-654)
\* a pause_timer that pauses whenever the timer runs, paused already or not
IsPausable_Running(running, paused) == running

\* a pause_timer that pauses whenever it is called
IsPausable_Always(running, paused) == TRUE

\* line 647: the branch that pauses
IsPausable(running, paused) == running /\ ~paused

PauseTimer ==
    IF IsPausable(timer_running, timer_paused)
    THEN /\ timer_paused' = TRUE
         /\ pause_button' = [pause_button EXCEPT !.text = "Resume"]
         /\ start_button' = "normal"
         /\ lastOp' = "pause"
         /\ UNCHANGED <<timer_running, remaining_time, current_phase, completed_cycles,
                        techVars, time_display, cycle_var,
                        reset_button, threads, queue, histVars,
                   storeVars>>
    ELSE /\ timer_paused' = FALSE
         /\ pause_button' = [pause_button EXCEPT !.text = "Pause"]
         /\ start_button' = "disabled"
         /\ lastOp' = "unpause"
         /\ UNCHANGED <<timer_running, remaining_time, current_phase, completed_cycles,
                        techVars, time_display, cycle_var,
                        reset_button, threads, queue, histVars,
                   storeVars>>

\* ------------------------------------------------ reset_timer (656-671)
\* a reset_timer that leaves the Pause button as it is
ResetTimer_KeepsPause ==
    /\ timer_running' = FALSE
    /\ timer_paused' = FALSE
    /\ current_phase' = "ready"
    /\ completed_cycles' = 0
    /\ cycle_var' = <<0, cur.cycles_before_long_break>>
    /\ start_button' = "normal"
    /\ reset_button' = "disabled"
    /\ time_display' = DisplayText(FALSE, FALSE, remaining_time, cur)
    /\ lastOp' = "reset"
    /\ worksDone' = 0
    /\ UNCHANGED <<remaining_time, techVars, threads, queue, handled,
                   pause_button, storeVars>>

ResetTimer ==
    /\ timer_running' = FALSE
    /\ timer_paused' = FALSE
    /\ current_phase' = "ready"
    /\ completed_cycles' = 0
    /\ cycle_var' = <<0, cur.cycles_before_long_break>>
    /\ start_button' = "normal"
    /\ pause_button' = [state |-> "disabled", text |-> "Pause"]
    /\ reset_button' = "disabled"
    /\ time_display' = DisplayText(FALSE, FALSE, remaining_time, cur)
    /\ lastOp' = "reset"
    /\ worksDone' = 0
    /\ UNCHANGED <<remaining_time, techVars, threads, queue, handled,
                   storeVars>>

\* ---------------------------------------- on_technique_changed (290-302)
HasNamed(name) == \E i \in 1..Len(techniques) : techniques[i].name = name

\* the first technique of the list carrying the selected name
FirstNamed(name) ==
    CHOOSE i \in 1..Len(techniques) :
        /\ techniques[i].name = name
        /\ \A j \in 1..Len(techniques) : techniques[j].name = name => i <= j

\* The combobox has put the selected name into technique_var; a name no
\* technique carries any more leaves the loop (294) without a match.
OnTechniqueChanged(name) ==
    /\ technique_var' = name
    /\ IF HasNamed(name)
       THEN LET i == FirstNamed(name) IN
            /\ current_technique' = i
            /\ description_var' = techniques[i].description
            /\ work_time_var' = techniques[i].work_time
            /\ break_time_var' = techniques[i].break_time
            /\ time_display' = DisplayText(timer_running, timer_paused, remaining_time,
                                           techniques[i])
            /\ cycle_var' = <<0, techniques[i].cycles_before_long_break>>
       ELSE UNCHANGED <<current_technique, description_var, work_time_var,
                        break_time_var, time_display, cycle_var>>
    /\ lastOp' = "select"
    /\ UNCHANGED <<timerVars, techniques, start_button, pause_button,
                   reset_button, threads, queue, histVars,
                   storeVars>>

\* ------------------------------------------------------ run_timer (673-691)
Post(q, cb) == Append(q, cb)

\* line 675: the loop condition
ThreadCond ==
    /\ threads["cond"] > 0
    /\ threads' = Move(threads, "cond",
                       IF timer_running /\ remaining_time > 0 THEN "chk" ELSE "exit")
    /\ lastOp' = "thread"
    /\ UNCHANGED <<timerVars, techVars, widgetVars, queue, histVars,
                   storeVars>>

\* line 676: paused threads sleep 0.1 s and test the loop condition again
ThreadChk ==
    /\ threads["chk"] > 0
    /\ threads' = Move(threads, "chk", IF ~timer_paused THEN "dec" ELSE "cond")
    /\ lastOp' = "thread"
    /\ UNCHANGED <<timerVars, techVars, widgetVars, queue, histVars,
                   storeVars>>

\* line 678: `self.remaining_time -= 1`; 681: post update_display; 684: sleep a
\* second, then the loop condition again
Decremented(r) == r - 1

ThreadTick ==
    /\ threads["dec"] > 0
    /\ Len(queue) < MaxQueue
    /\ remaining_time' = Decremented(remaining_time)
    /\ queue' = Post(queue, "update_display")
    /\ threads' = Move(threads, "dec", "cond")
    /\ handled' = IF remaining_time' = 0 THEN 0 ELSE handled
    /\ lastOp' = "tick"
    /\ UNCHANGED <<timer_running, timer_paused, current_phase, completed_cycles,
                   techVars, widgetVars, worksDone,
                   storeVars>>

\* lines 689-691: after the loop
ThreadExit ==
    /\ threads["exit"] > 0
    /\ IF timer_running
       THEN /\ Len(queue) < MaxQueue
            /\ queue' = Post(queue, "handle_timer_complete")
       ELSE /\ queue' = queue
    /\ lastOp' = "thread"
    /\ threads' = [threads EXCEPT !["exit"] = @ - 1]
    /\ UNCHANGED <<timerVars, techVars, widgetVars, histVars,
                   storeVars>>

\* ------------------------------------- update_display (594-615), as callback
UpdateDisplay ==
    /\ queue # <<>>
    /\ Head(queue) = "update_display"
    /\ queue' = Tail(queue)
    /\ time_display' = DisplayText(timer_running, timer_paused, remaining_time, cur)
    /\ lastOp' = "display"
    /\ UNCHANGED <<timerVars, techVars, cycle_var, start_button,
                   pause_button, reset_button, threads, histVars,
                   storeVars>>

\* ---------------------------------------- handle_timer_complete (693-724)
\* a long-break test that is one cycle early
LongBreakDue_Early(cycles, tech) == (cycles + 1) % tech.cycles_before_long_break = 0

\* line 702
LongBreakDue(cycles, tech) == cycles % tech.cycles_before_long_break = 0

\* a transition that counts a cycle after every phase
NextPhase_CountsBreaks(phase, cycles, tech) ==
    IF phase = "work"
    THEN IF LongBreakDue(cycles + 1, tech)
         THEN <<"long_break", PhaseSeconds(tech.long_break_time), cycles + 1>>
         ELSE <<"break", PhaseSeconds(tech.break_time), cycles + 1>>
    ELSE <<"work", PhaseSeconds(tech.work_time), cycles + 1>>

\* lines 699-716: <<current_phase, remaining_time, completed_cycles>>
NextPhase(phase, cycles, tech) ==
    IF phase = "work"
    THEN IF LongBreakDue(cycles + 1, tech)
         THEN <<"long_break", PhaseSeconds(tech.long_break_time), cycles + 1>>
         ELSE <<"break", PhaseSeconds(tech.break_time), cycles + 1>>
    ELSE <<"work", PhaseSeconds(tech.work_time), cycles>>

HandleTimerComplete ==
    /\ queue # <<>>
    /\ Head(queue) = "handle_timer_complete"
    /\ CanSpawn
    /\ current_phase = "work" => completed_cycles < MaxCycles
    /\ LET n == NextPhase(current_phase, completed_cycles, cur) IN
        /\ current_phase' = n[1]
        /\ remaining_time' = n[2]
        /\ completed_cycles' = n[3]
        /\ cycle_var' = <<n[3], cur.cycles_before_long_break>>
        /\ lastOp' = IF current_phase = "work" THEN "complete_work" ELSE "complete_break"
    /\ queue' = Tail(queue)
    /\ threads' = SpawnThread(threads)
    /\ handled' = IF handled < 2 THEN handled + 1 ELSE handled
    /\ worksDone' = IF current_phase = "work" THEN worksDone + 1 ELSE worksDone
    /\ UNCHANGED <<timer_running, timer_paused, techVars, time_display,
                   start_button, pause_button, reset_button,
                   storeVars>>

\* show_notification (726-750) with a notifier that raises: on Darwin the
\* try/except around subprocess.run (741-748) prints the error; elsewhere
\* messagebox.showinfo (750) is called outside any try and the exception
\* leaves show_notification.
NotifierErrorEscapes(plat) == plat # "Darwin"

\* handle_timer_complete (693-724) run with a notifier that raises: when the
\* exception escapes show_notification (695), lines 697-724 do not run.
HandleTimerCompleteNotifierFails ==
    IF NotifierErrorEscapes(platform)
    THEN /\ queue # <<>>
         /\ Head(queue) = "handle_timer_complete"
         /\ queue' = Tail(queue)
         /\ lastOp' = "complete_aborted"
         /\ UNCHANGED <<timerVars, techVars, widgetVars, storeVars, threads, histVars>>
    ELSE HandleTimerComplete

\* ------------------------------------------------------- the user, the GUI
\* The main window exists (line 42 did not raise) and no dialog holds the grab.
MainWindow == techniques # <<>> /\ window = "none"

\* A button runs its command only while it is enabled.
ClickStart == MainWindow /\ start_button = "normal" /\ StartTimer
ClickPause == MainWindow /\ pause_button.state = "normal" /\ PauseTimer
ClickReset == MainWindow /\ reset_button = "normal" /\ ResetTimer
\* The combobox is read-only: the user picks one of its values.
SelectTechnique ==
    /\ MainWindow
    /\ \E i \in 1..Len(dropdown_values) : OnTechniqueChanged(dropdown_values[i])

Next ==
    \/ ClickStart
    \/ ClickPause
    \/ ClickReset
    \/ SelectTechnique
    \/ UpdateDisplay
    \/ HandleTimerComplete
    \/ ThreadCond
    \/ ThreadChk
    \/ ThreadTick
    \/ ThreadExit

Spec == Init /\ [][Next]_vars

\* --------------------------------------------- the handlers as an interface
\* start_timer, pause_timer and reset_timer called in any state, enabled button
\* or not: every behaviour of Spec is one of SpecCalls.
CallStart == StartTimer
CallPause == PauseTimer
CallReset == ResetTimer

NextCalls ==
    \/ CallStart
    \/ CallPause
    \/ CallReset
    \/ SelectTechnique
    \/ UpdateDisplay
    \/ HandleTimerComplete
    \/ ThreadCond
    \/ ThreadChk
    \/ ThreadTick
    \/ ThreadExit

SpecCalls == Init /\ [][NextCalls]_vars

\* ------------------------------------------------ the timer left to itself
\* The user starts the timer, pauses and resumes it and selects techniques, and
\* never resets.  Fairness: the operating system lets a runnable run_timer
\* thread take its next step (its sleeps end), and the Tk main loop runs the
\* callbacks posted with root.after(0, ...).  Nothing is assumed of the user.
NextLive ==
    \/ ClickStart
    \/ ClickPause
    \/ SelectTechnique
    \/ UpdateDisplay
    \/ HandleTimerComplete
    \/ ThreadCond
    \/ ThreadChk
    \/ ThreadTick
    \/ ThreadExit

SpecLive ==
    /\ Init
    /\ [][NextLive]_vars
    /\ WF_vars(ThreadCond)
    /\ WF_vars(ThreadChk)
    /\ WF_vars(ThreadTick)
    /\ WF_vars(ThreadExit)
    /\ WF_vars(UpdateDisplay)
    /\ WF_vars(HandleTimerComplete)

\* --------------------------------------------------- a notifier that may fail
\* The user starts the timer and selects techniques; the notifier of a phase
\* completion returns normally or raises.
NextNotify ==
    \/ ClickStart
    \/ SelectTechnique
    \/ UpdateDisplay
    \/ HandleTimerComplete
    \/ HandleTimerCompleteNotifierFails
    \/ ThreadCond
    \/ ThreadChk
    \/ ThreadTick
    \/ ThreadExit

SpecNotify == Init /\ [][NextNotify]_vars

\* ------------------------------------------ quick settings (250-285, 310-325)
\* The numbers typed into a spinbox: from_=1 limits its arrows, not the typing.
Minutes == 0..MaxMinutes

TypeWorkTime ==
    /\ MainWindow
    /\ \E v \in Minutes : work_time_var' = v
    /\ lastOp' = "type"
    /\ UNCHANGED <<timerVars, techniques, current_technique, technique_var,
                   description_var, break_time_var, widgetVars, storeVars,
                   threads, queue, histVars>>

TypeBreakTime ==
    /\ MainWindow
    /\ \E v \in Minutes : break_time_var' = v
    /\ lastOp' = "type"
    /\ UNCHANGED <<timerVars, techniques, current_technique, technique_var,
                   description_var, work_time_var, widgetVars, storeVars,
                   threads, queue, histVars>>

\* lines 312-317: the current technique, which is an element of the list
AppliedSettings(list, i, work, break) ==
    [list EXCEPT ![i].work_time = work, ![i].break_time = break]

\* an apply_settings that reloads the countdown with the new work time
ApplySettings_Reloads(outcome) ==
    LET updated == AppliedSettings(techniques, current_technique,
                                   work_time_var, break_time_var) IN
    /\ techniques' = updated
    /\ config_file' = SaveTechniques(updated, config_file, outcome)
    /\ remaining_time' = PhaseSeconds(work_time_var)
    /\ time_display' = DisplayText(timer_running, timer_paused, remaining_time',
                                   updated[current_technique])
    /\ lastOp' = "apply"
    /\ UNCHANGED <<timer_running, timer_paused, current_phase, completed_cycles,
                   current_technique, technique_var, description_var,
                   work_time_var, break_time_var, cycle_var, start_button,
                   pause_button, reset_button, dropdown_values, platform, window,
                   technique_frames, threads, queue, histVars>>

\* apply_settings (310-325)
ApplySettings(outcome) ==
    LET updated == AppliedSettings(techniques, current_technique,
                                   work_time_var, break_time_var) IN
    /\ techniques' = updated
    /\ config_file' = SaveTechniques(updated, config_file, outcome)
    /\ time_display' = DisplayText(timer_running, timer_paused, remaining_time,
                                   updated[current_technique])
    /\ lastOp' = "apply"
    /\ UNCHANGED <<timerVars, current_technique, technique_var, description_var,
                   work_time_var, break_time_var, cycle_var, start_button,
                   pause_button, reset_button, dropdown_values, platform, window,
                   technique_frames, threads, queue, histVars>>

ClickApply ==
    /\ MainWindow
    /\ \E outcome \in SaveOutcomes : ApplySettings(outcome)

\* --------------------------------------------- the edit dialog (327-488)
\* lines 411-420: the variables of one frame of the dialog
FrameOf(t) ==
    [name_var |-> t.name, work_var |-> t.work_time, break_var |-> t.break_time,
     long_break_var |-> t.long_break_time, cycles_var |-> t.cycles_before_long_break,
     desc_var |-> t.description, deleted |-> FALSE]

\* edit_techniques (327-436)
EditTechniques ==
    /\ MainWindow
    /\ window' = "edit"
    /\ technique_frames' = [i \in 1..Len(techniques) |-> FrameOf(techniques[i])]
    /\ lastOp' = "edit"
    /\ UNCHANGED <<timerVars, techVars, widgetVars, dropdown_values, platform,
                   config_file, threads, queue, histVars>>

\* The names typed into a name entry: the user empties it.
TypedNames == {""}

\* The user types into the name entry or the work-time spinbox of a frame shown.
TypeInFrame ==
    /\ window = "edit"
    /\ \E idx \in 1..Len(technique_frames) :
        /\ ~technique_frames[idx].deleted
        /\ \/ \E n \in TypedNames :
                technique_frames' = [technique_frames EXCEPT ![idx].name_var = n]
           \/ \E v \in Minutes :
                technique_frames' = [technique_frames EXCEPT ![idx].work_var = v]
    /\ lastOp' = "type"
    /\ UNCHANGED <<timerVars, techVars, widgetVars, dropdown_values, platform,
                   config_file, window, threads, queue, histVars>>

Undeleted(frames) == Cardinality({i \in 1..Len(frames) : ~frames[i].deleted})

\* a delete_technique_frame that rejects nothing
TooFewToDelete_Never(frames) == FALSE

\* line 440
TooFewToDelete(frames) == Undeleted(frames) <= 1

\* delete_technique_frame (438-445)
DeleteTechniqueFrame(idx) ==
    /\ IF TooFewToDelete(technique_frames)
       THEN /\ lastOp' = "delete_rejected"
            /\ UNCHANGED technique_frames
       ELSE /\ technique_frames' = [technique_frames EXCEPT ![idx].deleted = TRUE]
            /\ lastOp' = "delete"
    /\ UNCHANGED <<timerVars, techVars, widgetVars, dropdown_values, platform,
                   config_file, window, threads, queue, histVars>>

\* The Delete button of a frame shown: pack_forget (445) hides a deleted frame.
ClickDelete ==
    /\ window = "edit"
    /\ \E idx \in 1..Len(technique_frames) :
        /\ ~technique_frames[idx].deleted
        /\ DeleteTechniqueFrame(idx)

\* lines 456-463
TechniqueOf(frame) ==
    TimerTechnique(frame.name_var, frame.work_var, frame.break_var,
                   frame.long_break_var, frame.cycles_var, frame.desc_var)

\* lines 449-465: the loop over the frames
RECURSIVE UpdatedTechniques(_)
UpdatedTechniques(frames) ==
    IF frames = <<>>
    THEN <<>>
    ELSE IF Head(frames).deleted
         THEN UpdatedTechniques(Tail(frames))
         ELSE <<TechniqueOf(Head(frames))>> \o UpdatedTechniques(Tail(frames))

\* save_technique_changes (447-488).  Line 477 looks the combobox up as the
\* first child of the third child of the main frame; the third child is the
\* description label (160), which has no children, so the lookup raises
\* IndexError and the handler ends there: lines 478-488 do not run.
\* With no frame left, `self.techniques[0]` (472) raises already.
SaveTechniqueChanges(outcome) ==
    LET updated == UpdatedTechniques(technique_frames) IN
    /\ techniques' = updated
    /\ config_file' = SaveTechniques(updated, config_file, outcome)
    /\ IF updated = <<>>
       THEN UNCHANGED <<technique_var, current_technique>>
       ELSE /\ technique_var' = updated[1].name
            /\ current_technique' = 1
    /\ lastOp' = "save_changes"
    /\ UNCHANGED <<timerVars, description_var, work_time_var, break_time_var,
                   widgetVars, dropdown_values, platform, window, technique_frames,
                   threads, queue, histVars>>

ClickSaveChanges ==
    /\ window = "edit"
    /\ \E outcome \in SaveOutcomes : SaveTechniqueChanges(outcome)

\* the Cancel button: edit_window.destroy
CancelEdit ==
    /\ window = "edit"
    /\ window' = "none"
    /\ technique_frames' = <<>>
    /\ lastOp' = "cancel"
    /\ UNCHANGED <<timerVars, techVars, widgetVars, dropdown_values, platform,
                   config_file, threads, queue, histVars>>

\* ---------------------------------------------- the add dialog (490-592)
\* add_technique (490-566)
AddTechnique ==
    /\ MainWindow
    /\ window' = "add"
    /\ lastOp' = "add"
    /\ UNCHANGED <<timerVars, techVars, widgetVars, dropdown_values, platform,
                   config_file, technique_frames, threads, queue, histVars>>

\* What the user leaves in the fields of the dialog: the name and work time as
\* offered (507, 514) or typed, the other fields as offered.
NewTechniqueInputs ==
    { TimerTechnique(n, w, 5, 15, 4, "") :
        n \in {"New Technique"} \cup TypedNames, w \in {25} \cup Minutes }

\* save_new_technique (568-592); line 586 raises IndexError as line 477 does,
\* so lines 587-592 do not run: the dialog stays open.
SaveNewTechnique(t, outcome) ==
    LET updated == Append(techniques, t) IN
    /\ techniques' = updated
    /\ config_file' = SaveTechniques(updated, config_file, outcome)
    /\ lastOp' = "save_new"
    /\ UNCHANGED <<timerVars, current_technique, technique_var, description_var,
                   work_time_var, break_time_var, widgetVars, dropdown_values,
                   platform, window, technique_frames, threads, queue, histVars>>

ClickAddTechnique ==
    /\ window = "add"
    /\ Len(techniques) < MaxTechniques
    /\ \E t \in NewTechniqueInputs, outcome \in SaveOutcomes :
         SaveNewTechnique(t, outcome)

\* the Cancel button: add_window.destroy
CancelAdd ==
    /\ window = "add"
    /\ window' = "none"
    /\ lastOp' = "cancel"
    /\ UNCHANGED <<timerVars, techVars, widgetVars, dropdown_values, platform,
                   config_file, technique_frames, threads, queue, histVars>>

\* ------------------------------------------- the techniques and their file
\* The application started with any techniques.json; the user selects
\* techniques, types break times and applies them, and adds techniques.
InitStore ==
    /\ platform \in Platforms
    /\ \E f \in FileContents : InitFrom(f)

NextStore ==
    \/ SelectTechnique
    \/ TypeBreakTime
    \/ ClickApply
    \/ AddTechnique
    \/ ClickAddTechnique
    \/ CancelAdd

SpecStore == InitStore /\ [][NextStore]_vars

\* ----------------------------------------------------- the edit dialog alone
\* Started with the techniques.json of two techniques, the user selects
\* techniques and works with the edit dialog.
NextDialog ==
    \/ SelectTechnique
    \/ EditTechniques
    \/ TypeInFrame
    \/ ClickDelete
    \/ ClickSaveChanges
    \/ CancelEdit

SpecDialog == Init /\ [][NextDialog]_vars

\* ------------------------------------------ quick settings while the timer runs
\* The user starts the timer, selects techniques, types work times and applies
\* them; no pause and no reset.
NextSettings ==
    \/ ClickStart
    \/ SelectTechnique
    \/ TypeWorkTime
    \/ ClickApply
    \/ UpdateDisplay
    \/ HandleTimerComplete
    \/ ThreadCond
    \/ ThreadChk
    \/ ThreadTick
    \/ ThreadExit

SpecSettings == Init /\ [][NextSettings]_vars

\* ==================================================================== claims
Idle == ~timer_running
Paused == timer_running /\ timer_paused
\* the seconds a "MM:SS" label stands for
ShownSeconds(d) == d[1] * TicksPerMinute + d[2]
PendingComplete == queue # <<>> /\ Head(queue) = "handle_timer_complete"

\* C1: start_timer run in the Idle state (timer_running false: the initial state or
\* after reset_timer) leaves current_phase = "work", timer_running true, timer_paused
\* false and remaining_time = the active technique's work minutes in seconds.
C1_StartFromIdle ==
    [][ (Idle /\ StartTimer) =>
          /\ current_phase' = "work"
          /\ timer_running' = TRUE
          /\ timer_paused' = FALSE
          /\ remaining_time' = cur.work_time * TicksPerMinute ]_vars

\* start was pressed in Idle with the second technique selected
C1_Witness ==
    /\ lastOp = "start"
    /\ current_technique = 2
    /\ current_phase = "work"
    /\ timer_running /\ ~timer_paused
    /\ remaining_time = techniques[2].work_time * TicksPerMinute

\* C2: handle_timer_complete run for a Work phase adds exactly 1 to completed_cycles
\* and moves to the long break (remaining_time = long break minutes in seconds) when
\* the new count is a multiple of cycles_before_long_break, otherwise to the break
\* (remaining_time = break minutes in seconds); completed_cycles is the number of
\* Work phases completed since the last reset, so it is every N-th of them.
C2_WorkCompletes ==
    [][ (current_phase = "work" /\ HandleTimerComplete) =>
          /\ completed_cycles' = completed_cycles + 1
          /\ completed_cycles' = worksDone'
          /\ IF worksDone' % cur.cycles_before_long_break = 0
             THEN /\ current_phase' = "long_break"
                  /\ remaining_time' = cur.long_break_time * TicksPerMinute
             ELSE /\ current_phase' = "break"
                  /\ remaining_time' = cur.break_time * TicksPerMinute ]_vars

\* the second Work phase of a technique with a long break every 2 cycles has completed
C2_Witness ==
    /\ lastOp = "complete_work"
    /\ cur.cycles_before_long_break = 2
    /\ completed_cycles = 2
    /\ current_phase = "long_break"
    /\ remaining_time = cur.long_break_time * TicksPerMinute

\* C3: remaining_time >= 0 in every reachable state.
C3_NeverNegative == remaining_time >= 0

\* C4: the phase-complete handling runs at most once for each time the countdown
\* of the session reaches 0.
C4_HandledOnce == handled <= 1

\* C5: at most one run_timer loop is alive (able to decrement) at any time.
C5_OneLoop == AliveLoops <= 1

\* C6: once reset_timer has returned, and as long as the timer is not started again,
\* no run_timer thread decrements remaining_time or posts a callback.
C6_NoEffectAfterReset ==
    [][ (Idle /\ (ThreadCond \/ ThreadChk \/ ThreadTick \/ ThreadExit)) =>
          UNCHANGED <<remaining_time, queue>> ]_vars

\* C7: a handle_timer_complete that is still pending when reset_timer runs after
\* the countdown reached 0 is discarded: until the next start the phase stays "ready", completed_cycles stays 0
\* and no thread is started.
C7_PendingDiscarded ==
    [][ (PendingComplete /\ remaining_time = 0 /\ current_phase = "ready" /\ Idle
           /\ ~timer_running') =>
          /\ current_phase' = "ready"
          /\ completed_cycles' = 0
          /\ Alive(threads') <= Alive(threads) ]_vars

\* C8: reset_timer, in whatever state it runs, leaves current_phase = "ready" (Idle),
\* timer_running false, timer_paused false, completed_cycles = 0 and the time label
\* showing the active technique's work minutes.
C8_Reset ==
    [][ ResetTimer =>
          /\ current_phase' = "ready"
          /\ timer_running' = FALSE
          /\ timer_paused' = FALSE
          /\ completed_cycles' = 0
          /\ ShownSeconds(time_display') = cur.work_time * TicksPerMinute ]_vars

\* reset was pressed in the middle of a countdown
C8_Witness ==
    /\ lastOp = "reset"
    /\ 0 < remaining_time
    /\ remaining_time < cur.work_time * TicksPerMinute
    /\ current_phase = "ready"
    /\ time_display = <<cur.work_time, 0>>

\* C9: while the timer stays paused, remaining_time does not change.
C9_FrozenWhilePaused ==
    [][ (Paused /\ timer_running' /\ timer_paused') =>
          remaining_time' = remaining_time ]_vars

\* C10: start_timer run in the Paused state keeps current_phase, remaining_time and
\* completed_cycles, clears timer_paused and starts no thread.
C10_Resume ==
    [][ (Paused /\ StartTimer) =>
          /\ current_phase' = current_phase
          /\ remaining_time' = remaining_time
          /\ completed_cycles' = completed_cycles
          /\ timer_running' = TRUE
          /\ timer_paused' = FALSE
          /\ threads' = threads ]_vars

\* a break paused in its middle was resumed with Start
C10_Witness ==
    /\ lastOp = "resume"
    /\ current_phase = "break"
    /\ 0 < remaining_time
    /\ remaining_time < cur.break_time * TicksPerMinute
    /\ completed_cycles = 1
    /\ ~timer_paused

Running == timer_running /\ ~timer_paused

\* C11: start_timer run while the timer is running and not paused changes nothing:
\* current_phase, remaining_time, completed_cycles and the threads stay as they are.
C11_StartWhileRunning ==
    [][ (Running /\ StartTimer) =>
          UNCHANGED <<current_phase, remaining_time, completed_cycles, threads>> ]_vars

\* C12 as claimed: pause_timer run while the timer is not running or already paused
\* changes none of timer_running, timer_paused, current_phase, remaining_time,
\* completed_cycles.
C12_PauseNoOp ==
    [][ (~Running /\ PauseTimer) => UNCHANGED timerVars ]_vars

\* C12 as amended: pause_timer run in Idle changes none of the five fields;
\* pause_timer run while already paused clears timer_paused (the countdown
\* resumes) and changes none of the other four.
C12_PauseToggles ==
    [][ (~Running /\ PauseTimer) =>
          /\ timer_paused' = FALSE
          /\ UNCHANGED <<timer_running, current_phase, remaining_time, completed_cycles>>
          /\ Idle => UNCHANGED timerVars ]_vars

\* a second pause has resumed a countdown paused in its middle
C12_Witness ==
    /\ lastOp = "unpause"
    /\ timer_running /\ ~timer_paused
    /\ 0 < remaining_time
    /\ remaining_time < cur.work_time * TicksPerMinute
    /\ current_phase = "work"

\* C13: handle_timer_complete run for a break or a long break moves to Work with
\* remaining_time = the active technique's work minutes in seconds and leaves
\* completed_cycles as it is.
C13_BreakCompletes ==
    [][ (current_phase \in {"break", "long_break"} /\ HandleTimerComplete) =>
          /\ current_phase' = "work"
          /\ remaining_time' = cur.work_time * TicksPerMinute
          /\ completed_cycles' = completed_cycles ]_vars

\* the long break after the second cycle has completed
C13_Witness ==
    /\ lastOp = "complete_break"
    /\ cur.cycles_before_long_break = 2
    /\ completed_cycles = 2
    /\ current_phase = "work"
    /\ remaining_time = cur.work_time * TicksPerMinute

OnBreak == current_phase \in {"break", "long_break"}

C15_NotifierCannotAbort ==
    [][ (HandleTimerComplete \/ HandleTimerCompleteNotifierFails) =>
          /\ <<current_phase', remaining_time', completed_cycles'>>
                = NextPhase(current_phase, completed_cycles, cur)
          /\ Alive(threads') = Alive(threads) + 1 ]_vars

\* C16: on_technique_changed and apply_settings run while the timer is running
\* leave remaining_time, current_phase and completed_cycles as they are, and
\* every handle_timer_complete loads the next phase from the technique that
\* is current when it runs: its cycles_before_long_break decides on the long
\* break and its minutes are the new remaining_time.
C16_ChangeKeepsPhase ==
    [][ /\ (timer_running /\ (SelectTechnique \/ ClickApply)) =>
              UNCHANGED <<remaining_time, current_phase, completed_cycles>>
        /\ (HandleTimerComplete /\ current_phase = "work") =>
              /\ (current_phase' = "long_break")
                    = (completed_cycles' % cur.cycles_before_long_break = 0)
              /\ remaining_time' = TicksPerMinute *
                    (IF current_phase' = "long_break"
                     THEN cur.long_break_time ELSE cur.break_time)
        /\ (HandleTimerComplete /\ current_phase # "work") =>
              remaining_time' = TicksPerMinute * cur.work_time ]_vars

\* a shorter work time has been applied in the middle of a Work phase, and
\* more than that time is still left of the phase
C16_Witness ==
    /\ lastOp = "apply"
    /\ timer_running
    /\ current_phase = "work"
    /\ cur.work_time = 1
    /\ remaining_time > cur.work_time * TicksPerMinute
    /\ completed_cycles = 1

\* C17: the list of techniques is never empty, whatever techniques.json holds
\* at start and whatever is added, applied, edited or deleted afterwards.
C17_NeverEmpty == Len(techniques) >= 1

\* the frames of the edit dialog not marked deleted, in their order
KeptFrames(frames) == SelectSeq(frames, LAMBDA f : ~f.deleted)

\* C18: a delete in the edit dialog with one frame left undeleted shows the
\* error and leaves the list and the deleted marks as they are; with two or
\* more left it marks the frame it was asked for and no other, and a save makes
\* the list of exactly the frames left unmarked.
C18_Delete ==
    [][ /\ \A idx \in 1..MaxTechniques :
              (/\ window = "edit"
               /\ idx \in 1..Len(technique_frames)
               /\ DeleteTechniqueFrame(idx)) =>
                  IF Undeleted(technique_frames) = 1
                  THEN /\ lastOp' = "delete_rejected"
                       /\ UNCHANGED <<techniques, technique_frames>>
                  ELSE /\ technique_frames'[idx].deleted
                       /\ \A j \in 1..Len(technique_frames) :
                             j # idx => technique_frames'[j] = technique_frames[j]
                       /\ Len(technique_frames') = Len(technique_frames)
                       /\ UNCHANGED techniques
        /\ ClickSaveChanges =>
              /\ Len(techniques') = Len(KeptFrames(technique_frames))
              /\ \A i \in 1..Len(techniques') :
                    techniques'[i] = TechniqueOf(KeptFrames(technique_frames)[i]) ]_vars

\* the first of two techniques has been deleted in the dialog and the list
\* saved: the second one is the list
C18_Witness ==
    /\ lastOp = "save_changes"
    /\ Len(technique_frames) = 2
    /\ technique_frames[1].deleted
    /\ ~technique_frames[2].deleted
    /\ techniques = <<LoadedTechniques[2]>>

ValidTechnique(t) ==
    /\ t.work_time >= 1
    /\ t.break_time >= 1
    /\ t.long_break_time >= 1
    /\ t.cycles_before_long_break >= 1
    /\ t.name # ""

\* C19: every technique of the list has work, break and long-break minutes
\* and cycles_before_long_break of at least 1 and a name that is not empty.
C19_AllValid == \A i \in 1..Len(techniques) : ValidTechnique(techniques[i])

\* C20: every step leaves techniques.json as it was or holding the complete
\* new list.
C20_NeverPartial ==
    [][ \/ config_file' = config_file
        \/ config_file' = SaveTechniques(techniques', config_file, "written") ]_vars

\* C21: after a save that succeeded, load_techniques returns the list saved,
\* in its order and with its six values per technique, and saving the list
\* loaded writes the same file again.
C21_RoundTrip ==
    (lastOp \in {"apply", "save_new"} /\ config_file.kind = "json") =>
        /\ LoadTechniques(config_file) = techniques
        /\ \A i \in 1..Len(techniques) : \A key \in DOMAIN techniques[i] :
              LoadTechniques(config_file)[i][key] = techniques[i][key]
        /\ SaveTechniques(LoadTechniques(config_file), config_file, "written")
              = config_file

\* a third technique has been added and saved to a list whose first technique
\* has a long break and a cycle count that are not the defaults of the loader
C21_Witness ==
    /\ lastOp = "save_new"
    /\ config_file.kind = "json"
    /\ Len(techniques) = 3
    /\ techniques[1].long_break_time # LoadDefaultLongBreakTime
    /\ techniques[1].cycles_before_long_break # LoadDefaultCycles
    /\ ValidTechnique(techniques[3])

\* the file exists and json.load or a t_data[...] of a required key fails
Unreadable(f) ==
    \/ f.kind = "partial"
    \/ /\ f.kind = "json"
       /\ \E i \in 1..Len(f.data) :
             \E key \in {"name", "work_time", "break_time"} : key \notin DOMAIN f.data[i]

\* C22: started with a techniques.json that cannot be parsed or that has an
\* object without a required key, load_techniques raises to its caller.
C22_LoadErrorSurfaced ==
    (lastOp = "init" /\ Unreadable(config_file)) => LoadOutcome(config_file) = "raised"

\* C23: in every state the Start button is enabled exactly when the timer is
\* not running or is paused, and the Pause and the Reset button exactly when
\* it is running.
C23_ButtonsGuard ==
    /\ (start_button = "normal") = (~timer_running \/ timer_paused)
    /\ (pause_button.state = "normal") = timer_running
    /\ (reset_button = "normal") = timer_running

\* the timer paused in a break: Start, Pause (as "Resume") and Reset are all
\* enabled
C23_Witness ==
    /\ lastOp = "pause"
    /\ timer_running /\ timer_paused
    /\ current_phase = "break"
    /\ start_button = "normal"
    /\ pause_button = [state |-> "normal", text |-> "Resume"]
    /\ reset_button = "normal"

\* C24: every phase completion, reset, selection of a technique and save of
\* the edit dialog leaves the cycle label showing completed_cycles over the
\* current technique's cycles_before_long_break.
C24_CycleLabelAgrees ==
    [][ (HandleTimerComplete \/ ResetTimer \/ SelectTechnique \/ ClickSaveChanges) =>
          cycle_var' = <<completed_cycles',
                         techniques'[current_technique'].cycles_before_long_break>> ]_vars

\* C25: timer_paused is never true while timer_running is false.
C25_PausedImpliesRunning == timer_paused => timer_running

\* the timer has been paused in its second Work phase, with handlers called
\* in any state before
C25_Witness ==
    /\ lastOp = "pause"
    /\ timer_paused /\ timer_running
    /\ current_phase = "work"
    /\ completed_cycles = 1
    /\ remaining_time > 0

====
